---- MODULE Spec2Model ----
(***************************************************************************)
(* dahua-day-night.py: a sequential command-line program.  One run parses  *)
(* the flags, optionally writes the self-scheduling cron file, optionally  *)
(* switches the named camera(s), optionally regenerates the per-camera     *)
(* cron files from the weather provider's sunrise/sunset, and exits.  The  *)
(* files it finds are whatever earlier runs left behind.                   *)
(***************************************************************************)
EXTENDS Integers, Sequences, FiniteSets, TLC

VARIABLES
    cameras,        \* cameras.yaml: the ordered camera records
    config,         \* config.yaml
    utc_offset,     \* the host's local UTC offset (seconds) used by fromtimestamp
    fs,             \* the file system: path -> [exists, lines]
    fs_start,       \* fs as it was when the current run started
    pc,             \* position of the current run in main()
    args,           \* argparse result of the current run
    i,              \* index of the running `for camera in cameras` loop
    calls,          \* switch_camera calls of this run, in order
    weather,        \* what the weather query of this run met ("unasked" before)
    times,          \* what get_times produced in this run
    attempted,      \* trigger files create_camera_cron tried to open, in order
    outcomes,       \* the fate of each attempt, parallel to attempted
    errlog,         \* the IOError lines printed by this run (the failing paths)
    sched_writes,   \* how often this run called create_scheduling_cron
    exit_status,    \* process exit status once the run is over
    instant,        \* input of the stand-alone epoch_to_cron call
    cron_text       \* its result

vars == <<cameras, config, utc_offset, fs, fs_start, pc, args, i, calls,
          weather, times, attempted, outcomes, errlog, sched_writes,
          exit_status, instant, cron_text>>

-----------------------------------------------------------------------------
(* Bounds of the model *)

\* longest cameras.yaml considered
MaxCameras == 2
\* the stand-alone conversion is tried on the instants k * EpochStride,
\* k in -EpochSpan .. EpochSpan, and on the same offsets from EpochBase
EpochSpan == 1500
EpochStride == 61

-----------------------------------------------------------------------------
(* Python values *)

\* Python's None (an absent flag, a function falling off its end)
None == "<None>"

\* truth value of an argparse string option: None and "" are falsy
Truthy(v) == v # None /\ v # ""

\* str.lower() on the strings that occur in the model
Lower(s) ==
    CASE s = "Front"   -> "front"
      [] s = "FRONT"   -> "front"
      [] s = "Digest"  -> "digest"
      [] s = "DIGEST"  -> "digest"
      [] s = "Sunrise" -> "sunrise"
      [] s = "SUNSET"  -> "sunset"
      [] OTHER         -> s

\* os.path.realpath(__file__)
ScriptPath == "/opt/dahua/dahua-day-night.py"

-----------------------------------------------------------------------------
(* Inputs *)

\* camera records of cameras.yaml
CamFront ==
    [camera |-> "front", auth |-> "digest", login |-> "admin", password |-> "pw1",
     sunrise_url |-> "http://10.0.0.1/day", sunset_url |-> "http://10.0.0.1/night"]
CamFrontUpper ==
    [camera |-> "Front", auth |-> "Digest", login |-> "root", password |-> "pw2",
     sunrise_url |-> "http://10.0.0.2/day", sunset_url |-> "http://10.0.0.2/night"]
CamBack ==
    [camera |-> "back", auth |-> "basic", login |-> "admin", password |-> "pw3",
     sunrise_url |-> "http://10.0.0.3/day", sunset_url |-> "http://10.0.0.3/night"]
CameraRecords == {CamFront, CamFrontUpper, CamBack}

\* all camera lists of length 0 .. MaxCameras
CameraLists == UNION {[1..n -> CameraRecords] : n \in 0..MaxCameras}

\* config.yaml; only sunset_adjustment varies
Config(adj) ==
    [api_key |-> "KEY", city_name |-> "Paris", sunset_adjustment |-> adj,
     scheduling_cron_time |-> "0 3 * * *", scheduling_cron_user |-> "root",
     scheduling_cron_file |-> "/etc/cron.d/dahua-day-night",
     cron_directory |-> "/etc/cron.d", log_file |-> ">> /var/log/dahua.log"]
Adjustments == {-1800, 600}

\* local UTC offsets of the host: the stand-alone conversion tries them all,
\* the program runs are checked on a host at UTC+5:30
UtcOffsets == {-18000, 0, 19800}
HostOffsets == {19800}

\* instants the stand-alone conversion is tried on
EpochInputs ==
    {k * EpochStride : k \in -EpochSpan..EpochSpan}
        \cup {1700000000 + k * EpochStride : k \in -EpochSpan..EpochSpan}

\* final HTTP statuses a camera may answer with
StatusCodes == {200, 204, 304, 404, 500}
\* requests.get raising (connection refused, timeout, ...) instead of answering
ConnectionError == 0
Responses == StatusCodes \cup {ConnectionError}

\* what the weather query meets: a JSON body with sys.sunrise/sys.sunset, or
\* a fault (requests.get raises, the body is no JSON, the body has no sys)
WeatherData ==
    {[fault |-> "none", sunrise |-> r, sunset |-> s] :
        r \in {1700000000}, s \in {1700040000, 1700040030}}
WeatherFaults ==
    {[fault |-> f, sunrise |-> 0, sunset |-> 0] :
        f \in {"connection", "not_json", "missing_sys"}}
WeatherResponses == WeatherData \cup WeatherFaults
Unasked == [fault |-> "unasked", sunrise |-> 0, sunset |-> 0]

\* command-line values of -c and -t
CameraArgs == {None, "front", "FRONT", "back", "porch"}
TimeArgs == {None, "sunrise", "SUNSET", "noon"}
\* -c "" and -t "" are supplied but falsy
EmptyArgs ==
    {[setup |-> FALSE, camera |-> "", time |-> None],
     [setup |-> FALSE, camera |-> "", time |-> "sunrise"]}
ArgSets == [setup : BOOLEAN, camera : CameraArgs, time : TimeArgs] \cup EmptyArgs

\* fate of one `with open(path, "w") as file: file.write(...)`
WriteOutcomes == {"ok", "open_fail", "write_fail"}

-----------------------------------------------------------------------------
(* epoch_to_cron and get_times *)

\* datetime.fromtimestamp(epoch_time) in local time, then dt.minute, dt.hour
\* (floor division: fromtimestamp also accepts instants before 1970)
LocalMinute(epoch_time) == ((epoch_time + utc_offset) \div 60) % 60
LocalHour(epoch_time) == ((epoch_time + utc_offset) \div 3600) % 24

\* get_times before it has been called
NoTimes ==
    [raised |-> FALSE, sunrise_epoch |-> 0, sunset_epoch |-> 0,
     sunrise |-> None, sunset |-> None]

\* epoch_to_cron rounding to the nearest minute instead of dropping seconds
epoch_to_cron_rounded(epoch_time) ==
    ToString(LocalMinute(epoch_time + 30)) \o " " \o ToString(LocalHour(epoch_time))
        \o " * * *"

\* f"{minute} {hour} * * *"
epoch_to_cron(epoch_time) ==
    ToString(LocalMinute(epoch_time)) \o " " \o ToString(LocalHour(epoch_time))
        \o " * * *"

\* get_times adding the adjustment to both instants
get_times_adjust_both(sunset_adjustment, data) ==
    IF data.fault # "none"
    THEN [NoTimes EXCEPT !.raised = TRUE]
    ELSE [raised |-> FALSE,
          sunrise_epoch |-> data.sunrise + sunset_adjustment,
          sunset_epoch |-> data.sunset + sunset_adjustment,
          sunrise |-> epoch_to_cron(data.sunrise + sunset_adjustment),
          sunset |-> epoch_to_cron(data.sunset + sunset_adjustment)]

\* get_times catching the fault and going on with midnight for both
get_times_swallow(sunset_adjustment, data) ==
    IF data.fault # "none"
    THEN [raised |-> FALSE, sunrise_epoch |-> 0, sunset_epoch |-> 0,
          sunrise |-> "0 0 * * *", sunset |-> "0 0 * * *"]
    ELSE [raised |-> FALSE,
          sunrise_epoch |-> data.sunrise,
          sunset_epoch |-> data.sunset + sunset_adjustment,
          sunrise |-> epoch_to_cron(data.sunrise),
          sunset |-> epoch_to_cron(data.sunset + sunset_adjustment)]
\* get_times: data is what requests.get(url).json() met.  A fault raises
\* before anything is computed; otherwise the adjustment is added to
\* data['sys']['sunset'] and both instants go through epoch_to_cron.
get_times(sunset_adjustment, data) ==
    IF data.fault # "none"
    THEN [NoTimes EXCEPT !.raised = TRUE]
    ELSE LET sunset_epoch == data.sunset + sunset_adjustment
         IN  [raised |-> FALSE,
              sunrise_epoch |-> data.sunrise,
              sunset_epoch |-> sunset_epoch,
              sunrise |-> epoch_to_cron(data.sunrise),
              sunset |-> epoch_to_cron(sunset_epoch)]

-----------------------------------------------------------------------------
(* The file system and the writers *)

SunriseFile(cfg, camera) == cfg.cron_directory \o "/sunrise-" \o camera.camera
SunsetFile(cfg, camera) == cfg.cron_directory \o "/sunset-" \o camera.camera
SunriseCommand(sunrise, camera) ==
    sunrise \o " root " \o ScriptPath \o " -c " \o camera.camera \o " -t sunrise"
SunsetCommand(sunset, camera) ==
    sunset \o " root " \o ScriptPath \o " -c " \o camera.camera \o " -t sunset"
SchedulingCommand(cfg) ==
    cfg.scheduling_cron_time \o " " \o cfg.scheduling_cron_user \o " "
        \o ScriptPath \o " " \o cfg.log_file

\* every path the program can write
CameraCronPaths ==
    {SunriseFile(Config(0), c) : c \in CameraRecords}
        \cup {SunsetFile(Config(0), c) : c \in CameraRecords}
Paths == CameraCronPaths \cup {Config(0).scheduling_cron_file}

Absent == [exists |-> FALSE, lines |-> <<>>]

\* what the program may find on disk: nothing, or the files an earlier day's
\* runs (setup, then regenerate) left for the cameras of the list
StaleSunrise == "12 7 * * *"
StaleSunset == "48 17 * * *"
StaleFile(path, cams, cfg) ==
    IF path = cfg.scheduling_cron_file
    THEN [exists |-> TRUE, lines |-> <<SchedulingCommand(cfg)>>]
    ELSE IF \E k \in DOMAIN cams : path = SunriseFile(cfg, cams[k])
    THEN LET k == CHOOSE k \in DOMAIN cams : path = SunriseFile(cfg, cams[k])
         IN  [exists |-> TRUE, lines |-> <<SunriseCommand(StaleSunrise, cams[k])>>]
    ELSE IF \E k \in DOMAIN cams : path = SunsetFile(cfg, cams[k])
    THEN LET k == CHOOSE k \in DOMAIN cams : path = SunsetFile(cfg, cams[k])
         IN  [exists |-> TRUE, lines |-> <<SunsetCommand(StaleSunset, cams[k])>>]
    ELSE Absent
InitialFileSystems(cams, cfg) ==
    {[p \in Paths |-> Absent], [p \in Paths |-> StaleFile(p, cams, cfg)]}

\* the file opened with "a" instead of "w": nothing is truncated
WriteFileAppend(fsIn, path, line, outcome) ==
    CASE outcome = "open_fail" -> fsIn
      [] outcome = "write_fail" ->
            [fsIn EXCEPT ![path] = [exists |-> TRUE, lines |-> fsIn[path].lines]]
      [] OTHER ->
            [fsIn EXCEPT ![path] =
                [exists |-> TRUE, lines |-> Append(fsIn[path].lines, line)]]

\* with open(path, "w") as file: file.write(line + "\n"), both IOErrors
\* caught and printed.  open(.., "w") truncates; a failed open leaves the
\* file alone, a failed write leaves it truncated.  lines is the file's
\* content as the sequence of its newline-terminated lines.
WriteFile(fsIn, path, line, outcome) ==
    CASE outcome = "open_fail" -> fsIn
      [] outcome = "write_fail" ->
            [fsIn EXCEPT ![path] = [exists |-> TRUE, lines |-> <<>>]]
      [] OTHER ->
            [fsIn EXCEPT ![path] = [exists |-> TRUE, lines |-> <<line>>]]

\* what the except clauses print: the path of every write that failed
Logged(path, outcome) == IF outcome = "ok" THEN <<>> ELSE <<path>>

\* create_scheduling_cron(config, args)
create_scheduling_cron(cfg, fsIn, outcome) ==
    [fs |-> WriteFile(fsIn, cfg.scheduling_cron_file, SchedulingCommand(cfg), outcome),
     logged |-> Logged(cfg.scheduling_cron_file, outcome)]

\* create_camera_cron letting the IOError of the sunrise file escape
create_camera_cron_abort(sunrise, sunset, cfg, camera, fsIn, oc) ==
    LET sunrise_file == SunriseFile(cfg, camera)
        sunset_file == SunsetFile(cfg, camera)
        fs1 == WriteFile(fsIn, sunrise_file, SunriseCommand(sunrise, camera), oc[1])
        fs2 == WriteFile(fs1, sunset_file, SunsetCommand(sunset, camera), oc[2])
    IN  IF oc[1] # "ok"
        THEN [fs |-> fs1, attempted |-> <<sunrise_file>>, outcomes |-> <<oc[1]>>,
              logged |-> <<>>, raised |-> TRUE]
        ELSE [fs |-> fs2,
              attempted |-> <<sunrise_file, sunset_file>>,
              outcomes |-> <<oc[1], oc[2]>>,
              logged |-> Logged(sunset_file, oc[2]),
              raised |-> FALSE]

\* create_camera_cron(sunrise, sunset, config, camera, args): the sunrise
\* file, then the sunset file, whatever became of the first
create_camera_cron(sunrise, sunset, cfg, camera, fsIn, oc) ==
    LET sunrise_file == SunriseFile(cfg, camera)
        sunset_file == SunsetFile(cfg, camera)
        fs1 == WriteFile(fsIn, sunrise_file, SunriseCommand(sunrise, camera), oc[1])
        fs2 == WriteFile(fs1, sunset_file, SunsetCommand(sunset, camera), oc[2])
    IN  [fs |-> fs2,
         attempted |-> <<sunrise_file, sunset_file>>,
         outcomes |-> <<oc[1], oc[2]>>,
         logged |-> Logged(sunrise_file, oc[1]) \o Logged(sunset_file, oc[2]),
         raised |-> FALSE]

-----------------------------------------------------------------------------
(* switch_camera *)

\* the server's reason phrase
Reason(status) ==
    CASE status = 404 -> "Not Found"
      [] status = 500 -> "Internal Server Error"
      [] status = 304 -> "Not Modified"
      [] status = 204 -> "No Content"
      [] OTHER -> "OK"

\* response.raise_for_status(): the HTTPError's text for a 4xx or 5xx
\* status, None when it does not raise
raise_for_status(status, url) ==
    IF 400 <= status /\ status < 500
    THEN ToString(status) \o " Client Error: " \o Reason(status) \o " for url: " \o url
    ELSE IF 500 <= status /\ status < 600
    THEN ToString(status) \o " Server Error: " \o Reason(status) \o " for url: " \o url
    ELSE None

\* requests.get(url, auth=HTTPDigestAuth(login, password))
Get(url, camera) ==
    [url |-> url, login |-> camera.login, password |-> camera.password]

\* the general shape of switch_camera: which URL each branch fetches, whether
\* the auth method is looked at, whether the HTTPError is caught
SwitchCameraWith(camera, a, response, url1, url2, checkAuth, catch) ==
    LET done(reqs, ret) == [requests |-> reqs, ret |-> ret, raised |-> FALSE]
        fault(reqs) == [requests |-> reqs, ret |-> None, raised |-> TRUE]
        digest == ~checkAuth \/ Lower(camera.auth) = "digest"
        r1 == IF Lower(a.time) = "sunrise" /\ digest
              THEN <<Get(url1, camera)>> ELSE <<>>
        e1 == raise_for_status(response, url1)
        r2 == IF Lower(a.time) = "sunset" /\ digest
              THEN <<Get(url2, camera)>> ELSE <<>>
        e2 == raise_for_status(response, url2)
    IN  IF r1 # <<>> /\ response = ConnectionError THEN fault(r1)
        ELSE IF r1 # <<>> /\ e1 # None
        THEN (IF catch THEN done(r1, "Error: " \o e1) ELSE fault(r1))
        ELSE IF r2 # <<>> /\ response = ConnectionError THEN fault(r1 \o r2)
        ELSE IF r2 # <<>> /\ e2 # None
        THEN (IF catch THEN done(r1 \o r2, "Error: " \o e2) ELSE fault(r1 \o r2))
        ELSE done(r1 \o r2, None)

\* switch_camera with the two URLs the wrong way round
switch_camera_swapped(camera, a, response) ==
    SwitchCameraWith(camera, a, response, camera.sunset_url, camera.sunrise_url,
                     TRUE, TRUE)

\* switch_camera fetching the URL whatever the auth method
switch_camera_any_auth(camera, a, response) ==
    SwitchCameraWith(camera, a, response, camera.sunrise_url, camera.sunset_url,
                     FALSE, TRUE)

\* switch_camera without the try/except around raise_for_status
switch_camera_uncaught(camera, a, response) ==
    SwitchCameraWith(camera, a, response, camera.sunrise_url, camera.sunset_url,
                     TRUE, FALSE)

\* switch_camera(camera, args) when the camera answers `response`:
\* the requests made, the value returned, whether an exception escaped
switch_camera(camera, a, response) ==
    LET done(reqs, ret) == [requests |-> reqs, ret |-> ret, raised |-> FALSE]
        fault(reqs) == [requests |-> reqs, ret |-> None, raised |-> TRUE]
        digest == Lower(camera.auth) = "digest"
        r1 == IF Lower(a.time) = "sunrise" /\ digest
              THEN <<Get(camera.sunrise_url, camera)>> ELSE <<>>
        e1 == raise_for_status(response, camera.sunrise_url)
        r2 == IF Lower(a.time) = "sunset" /\ digest
              THEN <<Get(camera.sunset_url, camera)>> ELSE <<>>
        e2 == raise_for_status(response, camera.sunset_url)
    IN  IF r1 # <<>> /\ response = ConnectionError THEN fault(r1)
        ELSE IF r1 # <<>> /\ e1 # None THEN done(r1, "Error: " \o e1)
        ELSE IF r2 # <<>> /\ response = ConnectionError THEN fault(r1 \o r2)
        ELSE IF r2 # <<>> /\ e2 # None THEN done(r1 \o r2, "Error: " \o e2)
        ELSE done(r1 \o r2, None)

-----------------------------------------------------------------------------
(* main *)

\* the names compared as they are
CameraMatchesExact(camera, a) == camera.camera = a.camera

\* line 168: camera['camera'].lower() == args.camera.lower()
CameraMatches(camera, a) == Lower(camera.camera) = Lower(a.camera)

\* line 159: if args.camera and args.time
SwitchMode(a) == Truthy(a.camera) /\ Truthy(a.time)

\* regenerate only when the setup flag is absent too
RegenerateModeUnlessSetup(a) == ~Truthy(a.camera) /\ ~Truthy(a.time) /\ ~a.setup

\* line 171: if not args.camera and not args.time
RegenerateMode(a) == ~Truthy(a.camera) /\ ~Truthy(a.time)

NoArgs == [setup |-> FALSE, camera |-> None, time |-> None]

TypeOK ==
    /\ cameras \in CameraLists
    /\ pc \in {"idle", "setup", "switch", "regen", "cron", "done", "aborted",
               "convert", "converted"}
    /\ exit_status \in {0, 1}

Init ==
    /\ cameras \in CameraLists
    /\ config \in {Config(adj) : adj \in Adjustments}
    /\ utc_offset \in HostOffsets
    /\ fs \in InitialFileSystems(cameras, config)
    /\ fs_start = fs
    /\ pc = "idle"
    /\ args = NoArgs
    /\ i = 1
    /\ calls = <<>>
    /\ weather = Unasked
    /\ times = NoTimes
    /\ attempted = <<>>
    /\ outcomes = <<>>
    /\ errlog = <<>>
    /\ sched_writes = 0
    /\ exit_status = 0
    /\ instant = 0
    /\ cron_text = ""

\* lines 124-154: a new process; argparse, config.yaml
Start ==
    /\ pc = "idle"
    /\ args' \in ArgSets
    /\ fs_start' = fs
    /\ pc' = "setup"
    /\ i' = 1
    /\ calls' = <<>>
    /\ weather' = Unasked
    /\ times' = NoTimes
    /\ attempted' = <<>>
    /\ outcomes' = <<>>
    /\ errlog' = <<>>
    /\ sched_writes' = 0
    /\ exit_status' = 0
    /\ UNCHANGED <<cameras, config, utc_offset, fs, instant, cron_text>>

\* lines 155-158: if args.setup: create_scheduling_cron(config, args)
Setup ==
    /\ pc = "setup"
    /\ pc' = "switch"
    /\ IF args.setup
       THEN \E oc \in WriteOutcomes :
              LET r == create_scheduling_cron(config, fs, oc)
              IN  /\ fs' = r.fs
                  /\ errlog' = errlog \o r.logged
                  /\ sched_writes' = sched_writes + 1
       ELSE UNCHANGED <<fs, errlog, sched_writes>>
    /\ UNCHANGED <<cameras, config, utc_offset, fs_start, args, i, calls,
                   weather, times, attempted, outcomes, exit_status,
                   instant, cron_text>>

\* lines 159-170, one turn of `for camera in cameras`: a record whose name
\* matches is switched; an exception escaping switch_camera ends the process
SwitchCamera ==
    /\ pc = "switch"
    /\ SwitchMode(args)
    /\ i <= Len(cameras)
    /\ IF CameraMatches(cameras[i], args)
       THEN \E response \in Responses :
              LET r == switch_camera(cameras[i], args, response)
              IN  /\ calls' = Append(calls,
                        [index |-> i, response |-> response,
                         requests |-> r.requests, ret |-> r.ret,
                         raised |-> r.raised])
                  /\ IF r.raised
                     THEN pc' = "aborted" /\ exit_status' = 1 /\ i' = i
                     ELSE pc' = pc /\ exit_status' = exit_status /\ i' = i + 1
       ELSE /\ i' = i + 1
            /\ UNCHANGED <<calls, pc, exit_status>>
    /\ UNCHANGED <<cameras, config, utc_offset, fs, fs_start, args,
                   weather, times, attempted, outcomes, errlog, sched_writes,
                   instant, cron_text>>

\* the switch block is skipped or its loop is over
SwitchDone ==
    /\ pc = "switch"
    /\ ~SwitchMode(args) \/ i > Len(cameras)
    /\ pc' = "regen"
    /\ i' = 1
    /\ UNCHANGED <<cameras, config, utc_offset, fs, fs_start, args, calls,
                   weather, times, attempted, outcomes, errlog, sched_writes,
                   exit_status, instant, cron_text>>

\* lines 171-173: the weather query; a fault in get_times ends the process
GetTimes ==
    /\ pc = "regen"
    /\ RegenerateMode(args)
    /\ \E data \in WeatherResponses :
         LET r == get_times(config.sunset_adjustment, data)
         IN  /\ weather' = data
             /\ times' = r
             /\ IF r.raised
                THEN pc' = "aborted" /\ exit_status' = 1
                ELSE pc' = "cron" /\ exit_status' = exit_status
    /\ i' = 1
    /\ UNCHANGED <<cameras, config, utc_offset, fs, fs_start, args, calls,
                   attempted, outcomes, errlog, sched_writes, instant,
                   cron_text>>

\* line 171 false: nothing to regenerate; lines 194-197
RegenSkip ==
    /\ pc = "regen"
    /\ ~RegenerateMode(args)
    /\ pc' = "done"
    /\ exit_status' = 0
    /\ UNCHANGED <<cameras, config, utc_offset, fs, fs_start, args, i,
                   calls, weather, times, attempted, outcomes, errlog,
                   sched_writes, instant, cron_text>>

\* lines 177-193, one turn of `for camera in cameras`
CameraCron ==
    /\ pc = "cron"
    /\ i <= Len(cameras)
    /\ \E oc \in WriteOutcomes \X WriteOutcomes :
         LET r == create_camera_cron(times.sunrise, times.sunset, config,
                                     cameras[i], fs, oc)
         IN  /\ fs' = r.fs
             /\ attempted' = attempted \o r.attempted
             /\ outcomes' = outcomes \o r.outcomes
             /\ errlog' = errlog \o r.logged
             /\ IF r.raised
                THEN pc' = "aborted" /\ exit_status' = 1 /\ i' = i
                ELSE pc' = pc /\ exit_status' = exit_status /\ i' = i + 1
    /\ UNCHANGED <<cameras, config, utc_offset, fs_start, args, calls,
                   weather, times, sched_writes, instant, cron_text>>

\* the loop is over; lines 194-197
CronDone ==
    /\ pc = "cron"
    /\ i > Len(cameras)
    /\ pc' = "done"
    /\ exit_status' = 0
    /\ UNCHANGED <<cameras, config, utc_offset, fs, fs_start, args, i,
                   calls, weather, times, attempted, outcomes, errlog,
                   sched_writes, instant, cron_text>>

Next ==
    \/ Start
    \/ Setup
    \/ SwitchCamera
    \/ SwitchDone
    \/ GetTimes
    \/ RegenSkip
    \/ CameraCron
    \/ CronDone

Spec == Init /\ [][Next]_vars

-----------------------------------------------------------------------------
(* epoch_to_cron on its own: one call per behaviour, on any instant *)

InitCron ==
    /\ cameras = <<>>
    /\ config = Config(0)
    /\ utc_offset \in UtcOffsets
    /\ fs = [p \in Paths |-> Absent]
    /\ fs_start = fs
    /\ pc = "convert"
    /\ args = NoArgs
    /\ i = 1
    /\ calls = <<>>
    /\ weather = Unasked
    /\ times = NoTimes
    /\ attempted = <<>>
    /\ outcomes = <<>>
    /\ errlog = <<>>
    /\ sched_writes = 0
    /\ exit_status = 0
    /\ instant \in EpochInputs
    /\ cron_text = ""

Convert ==
    /\ pc = "convert"
    /\ cron_text' = epoch_to_cron(instant)
    /\ pc' = "converted"
    /\ UNCHANGED <<cameras, config, utc_offset, fs, fs_start, args, i, calls,
                   weather, times, attempted, outcomes, errlog, sched_writes,
                   exit_status, instant>>

NextCron == Convert

SpecCron == InitCron /\ [][NextCron]_vars

-----------------------------------------------------------------------------
(* Helpers of the properties *)

Last(q) == q[Len(q)]

\* the run is over
Over == pc \in {"done", "aborted"}

\* indices of the records of cameras[1..n] whose name equals the -c value
\* ignoring case, in list order
RECURSIVE MatchingUpTo(_)
MatchingUpTo(n) ==
    IF n = 0 THEN <<>>
    ELSE IF Lower(cameras[n].camera) = Lower(args.camera)
    THEN Append(MatchingUpTo(n - 1), n)
    ELSE MatchingUpTo(n - 1)

CallIndices == [k \in DOMAIN calls |-> calls[k].index]

\* the camera a call was made for
CameraOf(c) == cameras[c.index]

IsDigest(camera) == camera.auth \in {"digest", "Digest", "DIGEST"}
IsSunrise(t) == t \in {"sunrise", "Sunrise", "SUNRISE"}
IsSunset(t) == t \in {"sunset", "Sunset", "SUNSET"}

\* the two trigger files of every camera, in list order
ExpectedFiles ==
    [k \in 1..(2 * Len(cameras)) |->
        IF k % 2 = 1
        THEN config.cron_directory \o "/sunrise-" \o cameras[(k + 1) \div 2].camera
        ELSE config.cron_directory \o "/sunset-" \o cameras[k \div 2].camera]

\* the line the k-th attempted file is meant to hold
ExpectedLine(k) ==
    IF k % 2 = 1
    THEN times.sunrise \o " root " \o ScriptPath \o " -c "
            \o cameras[(k + 1) \div 2].camera \o " -t sunrise"
    ELSE times.sunset \o " root " \o ScriptPath \o " -c "
            \o cameras[k \div 2].camera \o " -t sunset"

\* the paths of the first n attempts that failed, in order
RECURSIVE FailedUpTo(_)
FailedUpTo(n) ==
    IF n = 0 THEN <<>>
    ELSE IF outcomes[n] # "ok" THEN Append(FailedUpTo(n - 1), attempted[n])
    ELSE FailedUpTo(n - 1)

-----------------------------------------------------------------------------
(* C1 *)

\* C1: every switch_camera call for a digest camera with transition sunrise
\* or sunset (any letter case) makes exactly one GET, to sunrise_url for
\* sunrise and to sunset_url for sunset, with the record's login and password.
C1_OneGetToMatchingUrl ==
    \A k \in DOMAIN calls :
        LET c == calls[k]
            cam == CameraOf(c)
        IN  /\ (IsDigest(cam) /\ IsSunrise(args.time)) =>
                c.requests = <<[url |-> cam.sunrise_url, login |-> cam.login,
                                password |-> cam.password]>>
            /\ (IsDigest(cam) /\ IsSunset(args.time)) =>
                c.requests = <<[url |-> cam.sunset_url, login |-> cam.login,
                                password |-> cam.password]>>

\* a "Digest" camera was switched with -t SUNSET and answered 200
C1_Witness ==
    /\ pc = "done"
    /\ args.time = "SUNSET"
    /\ \E k \in DOMAIN calls :
          /\ CameraOf(calls[k]).auth = "Digest"
          /\ calls[k].response = 200
          /\ Len(calls[k].requests) = 1
          /\ calls[k].requests[1].url = "http://10.0.0.2/night"

-----------------------------------------------------------------------------
(* C2 *)

\* C2 as stated: with -c and -t given, only the first record whose name
\* matches is switched, so a run makes at most one switch_camera call.
C2_OnlyFirstMatchSwitched ==
    /\ Len(calls) <= 1
    /\ calls # <<>> =>
          \A j \in 1..(calls[1].index - 1) :
              Lower(cameras[j].camera) # Lower(args.camera)

\* C2 amended: with -c and -t given, switch_camera is called once for every
\* record whose name equals the -c value ignoring case, in list order, and
\* for no other record; only an exception escaping a call ends the loop early.
C2_EveryMatchSwitchedInOrder ==
    /\ ~(Truthy(args.camera) /\ Truthy(args.time)) => calls = <<>>
    /\ (Truthy(args.camera) /\ Truthy(args.time)) =>
          /\ pc = "switch" => CallIndices = MatchingUpTo(i - 1)
          /\ pc \in {"regen", "cron", "done"} =>
                CallIndices = MatchingUpTo(Len(cameras))
          /\ pc = "aborted" =>
                /\ CallIndices = MatchingUpTo(i)
                /\ calls # <<>> /\ Last(calls).raised

\* two records share the name and both were switched
C2_Witness ==
    /\ pc = "done"
    /\ Len(cameras) = 2
    /\ cameras[1].camera = cameras[2].camera
    /\ CallIndices = <<1, 2>>

-----------------------------------------------------------------------------
(* C3 *)

\* C3: a switch_camera call for a camera whose auth is not digest (ignoring
\* case) makes no HTTP request, returns None and raises nothing, whatever
\* the transition.
C3_NonDigestIsNoOp ==
    \A k \in DOMAIN calls :
        ~IsDigest(CameraOf(calls[k])) =>
            /\ calls[k].requests = <<>>
            /\ calls[k].ret = None
            /\ ~calls[k].raised

\* the basic-auth camera was switched to sunrise
C3_Witness ==
    /\ pc = "done"
    /\ args.time = "sunrise"
    /\ \E k \in DOMAIN calls :
          CameraOf(calls[k]).auth = "basic" /\ calls[k].requests = <<>>

-----------------------------------------------------------------------------
(* C4 *)

\* a call that reached the camera and got an HTTP status back
Answered(c) ==
    /\ IsDigest(CameraOf(c))
    /\ IsSunrise(args.time) \/ IsSunset(args.time)
    /\ c.response # ConnectionError

-----------------------------------------------------------------------------
(* C5 *)

\* the flag was given on the command line with a value
Supplied(v) == v \notin {None, ""}

\* C5 as stated: the weather query and the per-camera files happen exactly
\* when neither -c nor -t is supplied and the run is not a setup-only run.
C5_RegenerateUnlessPureSetup ==
    Over =>
        ((weather # Unasked) <=>
            (/\ ~Supplied(args.camera)
             /\ ~Supplied(args.time)
             /\ ~args.setup))

\* C5 amended: the weather query happens exactly when the -c value and the
\* -t value are both absent or empty, whatever the setup flag; a setup-only
\* run writes the self-schedule file once and then regenerates as well; a
\* regenerate run that ends normally has tried the files of every camera in
\* list order, and no other run tries any.
C5_RegenerateIffBothFalsy ==
    Over =>
        /\ (weather # Unasked) <=>
              (args.camera \in {None, ""} /\ args.time \in {None, ""})
        /\ sched_writes = (IF args.setup THEN 1 ELSE 0)
        /\ weather = Unasked => attempted = <<>>
        /\ (pc = "done" /\ weather # Unasked) => attempted = ExpectedFiles

\* a setup-only run wrote the self-schedule file, asked the weather and
\* wrote four trigger files
C5_Witness ==
    /\ pc = "done"
    /\ args = [setup |-> TRUE, camera |-> None, time |-> None]
    /\ sched_writes = 1
    /\ weather.fault = "none"
    /\ Len(attempted) = 4

-----------------------------------------------------------------------------
(* C6 *)

\* the k-th attempt is the last word on its file: every later attempt at
\* the same path succeeded as well
Settled(k) ==
    \A j \in (k + 1)..Len(attempted) :
        attempted[j] = attempted[k] => outcomes[j] = "ok"

\* C6: in a regenerate run a failing open or write never ends the batch:
\* the sunrise file and the sunset file of every camera are tried in list
\* order, every failure is printed, every file whose write succeeded holds
\* its new line, and the process exits 0.
C6_BestEffortBatch ==
    /\ pc = "aborted" =>
          \/ weather \in WeatherFaults
          \/ calls # <<>> /\ Last(calls).raised
    /\ pc = "cron" =>
          /\ Len(attempted) = 2 * (i - 1)
          /\ \A k \in DOMAIN attempted : attempted[k] = ExpectedFiles[k]
    /\ (pc = "done" /\ weather.fault = "none") =>
          /\ attempted = ExpectedFiles
          /\ exit_status = 0
          /\ \/ errlog = FailedUpTo(Len(attempted))
             \/ /\ args.setup
                /\ errlog = <<config.scheduling_cron_file>>
                                \o FailedUpTo(Len(attempted))
          /\ \A k \in DOMAIN attempted :
                (outcomes[k] = "ok" /\ Settled(k)) =>
                    /\ fs[attempted[k]].exists
                    /\ fs[attempted[k]].lines # <<>>
                    /\ Last(fs[attempted[k]].lines) = ExpectedLine(k)

\* three of four writes failed, the fourth file holds its line, exit 0
C6_Witness ==
    /\ pc = "done"
    /\ exit_status = 0
    /\ outcomes = <<"open_fail", "write_fail", "open_fail", "ok">>
    /\ Len(errlog) >= 3
    /\ fs[attempted[4]].lines = <<ExpectedLine(4)>>

-----------------------------------------------------------------------------
(* C7 *)

-----------------------------------------------------------------------------
(* C8 *)

\* C8: once get_times has returned, the instant converted for the sunset
\* trigger is the provider's sunset plus the configured adjustment, the
\* instant converted for the sunrise trigger is the provider's sunrise as
\* it came, and the two cron expressions are the conversions of exactly
\* these instants (1700000000, 1700040000, -1800 give 1700038200, which on
\* the UTC+5:30 host are 03:43 and 14:20).
C8_AdjustmentOnSunsetOnly ==
    times.sunrise # None =>
        /\ times.sunset_epoch = weather.sunset + config.sunset_adjustment
        /\ times.sunrise_epoch = weather.sunrise
        /\ times.sunrise_epoch - weather.sunrise = 0
        /\ times.sunset_epoch - times.sunrise_epoch
              = (weather.sunset - weather.sunrise) + config.sunset_adjustment
        /\ (/\ weather.sunrise = 1700000000
            /\ weather.sunset = 1700040000
            /\ config.sunset_adjustment = -1800
            /\ utc_offset = 19800) =>
                /\ times.sunset_epoch = 1700038200
                /\ times.sunrise_epoch = 1700000000
                /\ times.sunrise = "43 3 * * *"
                /\ times.sunset = "20 14 * * *"

\* the scenario of the specification was run
C8_Witness ==
    /\ pc = "done"
    /\ weather.sunrise = 1700000000
    /\ weather.sunset = 1700040000
    /\ config.sunset_adjustment = -1800
    /\ times.sunset_epoch = 1700038200
    /\ times.sunset = "20 14 * * *"

-----------------------------------------------------------------------------
(* C9 *)

\* C9: epoch_to_cron(t) is "<minute> <hour> * * *" where hour in 0..23 and
\* minute in 0..59 are the local hour and minute of t: the local second of
\* the day lies in the minute that starts at hour:minute:00 (seconds are
\* dropped, not rounded).
C9_CronIsLocalHourMinute ==
    pc = "converted" =>
        \E h \in 0..23, m \in 0..59 :
            /\ h * 3600 + m * 60 <= (instant + utc_offset) % 86400
            /\ (instant + utc_offset) % 86400 < h * 3600 + m * 60 + 60
            /\ cron_text = ToString(m) \o " " \o ToString(h) \o " * * *"

\* an instant before 1970 whose local second is 30 or more was converted
C9_Witness ==
    /\ pc = "converted"
    /\ instant < 0
    /\ (instant + utc_offset) % 60 >= 30
    /\ cron_text = "58 23 * * *"

-----------------------------------------------------------------------------
(* C10 *)

\* C10: every successful write of a trigger file leaves it holding exactly
\* its one line, whatever it held before, and a successful write over a
\* file that already holds that line leaves it as it was: running
\* create_camera_cron again on the same inputs changes nothing.
C10_RewriteIsIdempotent ==
    [][(pc = "cron" /\ Len(attempted') = Len(attempted) + 2) =>
          \A k \in (Len(attempted) + 1)..(Len(attempted) + 2) :
              outcomes'[k] = "ok" =>
                  /\ fs'[attempted'[k]] =
                        [exists |-> TRUE, lines |-> <<ExpectedLine(k)>>]
                  /\ fs[attempted'[k]].lines = <<ExpectedLine(k)>> =>
                        fs'[attempted'[k]] = fs[attempted'[k]]]_vars

\* the same file was written twice with the same inputs over stale content
C10_Witness ==
    \E j, k \in DOMAIN attempted :
        /\ j < k
        /\ attempted[j] = attempted[k]
        /\ outcomes[j] = "ok" /\ outcomes[k] = "ok"
        /\ fs_start[attempted[k]].exists
        /\ fs_start[attempted[k]].lines # <<ExpectedLine(k)>>
        /\ fs[attempted[k]].lines = <<ExpectedLine(k)>>

====
